---- MODULE Spec2Model ----
(***************************************************************************)
(* Model of refine_docx_from_amended.py: the paragraph-level diff and      *)
(* reconstruction engine and the document-level orchestrator.              *)
(*                                                                         *)
(* XML elements are records  [tag, id, gen, val, text, kids, ref]:         *)
(*   tag   the element's local name ("p", "r", "rPr", "t", "tab", ...);    *)
(*   id    the identity of the element object inside its paragraph;        *)
(*   gen   0 for an element parsed from the input, 1 for an element        *)
(*         created or deep-copied by the program;                          *)
(*   val   the element's attribute value ("none" when it has none);        *)
(*   text  the element's text as a sequence of characters;                 *)
(*   kids  the element's children in document order;                       *)
(*   ref   for a "pict" element, the handle of the paragraph object nested *)
(*         inside it (a text box), 0 otherwise.                            *)
(* Paragraph objects live in a heap (a sequence indexed by handle), so a   *)
(* paragraph that is detached from the tree is still the object the        *)
(* orchestrator's list refers to.  Offsets are 0-based as in the source.   *)
(***************************************************************************)
EXTENDS Integers, Sequences, FiniteSets, TLC

\* ------------------------------------------------------------------ bounds
\* Longest amended paragraph text drawn for a one-paragraph document.
MaxTextLen == 3
\* Largest number of paragraphs of a multi-paragraph document / amended list.
MaxParas == 2

\* ------------------------------------------------------------- characters
SP == " "
TAB == "\t"
NL == "\n"
CR == "\r"

\* Characters of the amended texts that are drawn: words are "a", "aa", ...
Alphabet == {"a", SP, TAB, NL}

\* Python's \s restricted to the characters of the model.
IsSpace(ch) == ch \in {SP, TAB, NL, CR}

\* s[i:j] of Python for 0 <= i, j
Slice(s, i, j) == IF j <= i THEN <<>> ELSE SubSeq(s, i + 1, IF j > Len(s) THEN Len(s) ELSE j)

RECURSIVE Concat(_)
Concat(ss) == IF ss = <<>> THEN <<>> ELSE Head(ss) \o Concat(Tail(ss))

RECURSIVE SeqSum(_)
SeqSum(ns) == IF ns = <<>> THEN 0 ELSE Head(ns) + SeqSum(Tail(ns))

Max2(x, y) == IF x >= y THEN x ELSE y
Min2(x, y) == IF x <= y THEN x ELSE y

\* All sequences over S of length at most n.
RECURSIVE SeqsUpTo(_, _)
SeqsUpTo(S, n) ==
    IF n = 0 THEN {<<>>}
    ELSE LET shorter == SeqsUpTo(S, n - 1)
         IN  shorter \cup {Append(s, x) : s \in {t \in shorter : Len(t) = n - 1}, x \in S}

\* ----------------------------------------------------------------- elements
E(tag, id, val, text, kids, ref) ==
    [tag |-> tag, id |-> id, gen |-> 0, val |-> val, text |-> text, kids |-> kids, ref |-> ref]

\* Python's None where an element is expected.
None == [tag |-> "None", id |-> 0, gen |-> 0, val |-> "none", text |-> <<>>, kids |-> <<>>, ref |-> 0]

\* etree.Element(w_tag(tag)): a fresh element without attributes or children.
NewElement(tag) ==
    [tag |-> tag, id |-> 0, gen |-> 1, val |-> "none", text |-> <<>>, kids |-> <<>>, ref |-> 0]

\* copy.deepcopy(elem): an equal subtree of new element objects.
RECURSIVE deepcopy(_)
deepcopy(n) == [n EXCEPT !.gen = 1, !.kids = [k \in 1..Len(n.kids) |-> deepcopy(n.kids[k])]]

\* elem.find("w:<tag>"): the first direct child with the tag, or None.
RECURSIVE FindChild(_, _)
FindChild(kids, tag) ==
    IF kids = <<>> THEN None
    ELSE IF Head(kids).tag = tag THEN Head(kids) ELSE FindChild(Tail(kids), tag)

\* Index (1-based) of the first direct child with the tag, 0 if none.
RECURSIVE FindIndex(_, _, _)
FindIndex(kids, tag, k) ==
    IF k > Len(kids) THEN 0
    ELSE IF kids[k].tag = tag THEN k ELSE FindIndex(kids, tag, k + 1)

\* _t(text): a w:t element; xml:space="preserve" when the text starts or ends
\* with a blank, a tab or a newline.
T_(text) ==
    [NewElement("t") EXCEPT
        !.text = text,
        !.val = IF text # <<>> /\ (text[1] \in {SP, TAB, NL} \/ text[Len(text)] \in {SP, TAB, NL})
                THEN "preserve" ELSE "none"]

\* ---------------------------------------------------------------- tokenizer
\* TOKEN_RE = \s+|[^\s]+ : the maximal runs of whitespace / non-whitespace.
RECURSIVE TokenEnd(_, _)
TokenEnd(s, i) ==
    \* s[i] starts a token (1-based); the index just after the token.
    IF i + 1 <= Len(s) /\ IsSpace(s[i + 1]) = IsSpace(s[i]) THEN TokenEnd(s, i + 1) ELSE i + 1

RECURSIVE TokensFrom(_, _)
TokensFrom(s, i) ==
    IF i > Len(s) THEN <<>>
    ELSE LET j == TokenEnd(s, i) IN <<SubSeq(s, i, j - 1)>> \o TokensFrom(s, j)

tokenize(s) == IF s = <<>> THEN <<>> ELSE TokensFrom(s, 1)

\* ------------------------------------------- difflib.SequenceMatcher (no junk)
\* Length of the common run a[i..], b[j..] inside [.., ahi) x [.., bhi), 0-based.
RECURSIVE CommonLen(_, _, _, _, _, _)
CommonLen(a, b, i, j, ahi, bhi) ==
    IF i < ahi /\ j < bhi /\ a[i + 1] = b[j + 1] THEN 1 + CommonLen(a, b, i + 1, j + 1, ahi, bhi) ELSE 0

\* find_longest_match(alo, ahi, blo, bhi) with autojunk=False and no junk:
\* the longest block; of those the one starting earliest in a, of those the
\* one starting earliest in b; (alo, blo, 0) when nothing matches.
find_longest_match(a, b, alo, ahi, blo, bhi) ==
    LET cand == {<<i, j>> : i \in alo..(ahi - 1), j \in blo..(bhi - 1)}
        len(c) == CommonLen(a, b, c[1], c[2], ahi, bhi)
        best == IF cand = {} THEN 0
                ELSE CHOOSE k \in {len(c) : c \in cand} : \A c \in cand : len(c) <= k
    IN  IF best = 0 THEN <<alo, blo, 0>>
        ELSE LET top == {c \in cand : len(c) = best}
                 bi == CHOOSE i \in {c[1] : c \in top} : \A c \in top : i <= c[1]
                 bj == CHOOSE j \in {c[2] : c \in {d \in top : d[1] = bi}} :
                           \A c \in {d \in top : d[1] = bi} : j <= c[2]
             IN  <<bi, bj, best>>

\* The recursion of get_matching_blocks: the block, then the pieces to its
\* left and to its right; the result is in increasing order.
RECURSIVE MatchBlocks(_, _, _, _, _, _)
BlocksAround(a, b, alo, ahi, blo, bhi, i, j, k) ==
    \* <<i, j, k>> is the longest match of the piece
    IF k = 0 THEN <<>>
    ELSE (IF alo < i /\ blo < j THEN MatchBlocks(a, b, alo, i, blo, j) ELSE <<>>)
         \o << <<i, j, k>> >>
         \o (IF i + k < ahi /\ j + k < bhi THEN MatchBlocks(a, b, i + k, ahi, j + k, bhi) ELSE <<>>)

MatchBlocks(a, b, alo, ahi, blo, bhi) ==
    LET m == find_longest_match(a, b, alo, ahi, blo, bhi)
    IN  BlocksAround(a, b, alo, ahi, blo, bhi, m[1], m[2], m[3])

\* The pass of get_matching_blocks that collapses adjacent blocks.
RECURSIVE MergeAdjacent(_, _)
MergeAdjacent(blocks, cur) ==
    \* cur = <<i1, j1, k1>> is the block being grown
    IF blocks = <<>> THEN (IF cur[3] # 0 THEN <<cur>> ELSE <<>>)
    ELSE LET nb == Head(blocks)
         IN  IF cur[1] + cur[3] = nb[1] /\ cur[2] + cur[3] = nb[2]
             THEN MergeAdjacent(Tail(blocks), <<cur[1], cur[2], cur[3] + nb[3]>>)
             ELSE (IF cur[3] # 0 THEN <<cur>> ELSE <<>>) \o MergeAdjacent(Tail(blocks), nb)

get_matching_blocks(a, b) ==
    MergeAdjacent(MatchBlocks(a, b, 0, Len(a), 0, Len(b)), <<0, 0, 0>>)
        \o << <<Len(a), Len(b), 0>> >>

\* get_opcodes: <<tag, i1, i2, j1, j2>> tuples over token indexes.
RECURSIVE OpcodesFrom(_, _, _)
OpcodesFrom(blocks, i, j) ==
    IF blocks = <<>> THEN <<>>
    ELSE LET ai == Head(blocks)[1]
             bj == Head(blocks)[2]
             size == Head(blocks)[3]
             tag == IF i < ai /\ j < bj THEN "replace"
                    ELSE IF i < ai THEN "delete"
                    ELSE IF j < bj THEN "insert"
                    ELSE ""
         IN  (IF tag # "" THEN << <<tag, i, ai, j, bj>> >> ELSE <<>>)
             \o (IF size # 0 THEN << <<"equal", ai, ai + size, bj, bj + size>> >> ELSE <<>>)
             \o OpcodesFrom(Tail(blocks), ai + size, bj + size)

get_opcodes(a, b) == OpcodesFrom(get_matching_blocks(a, b), 0, 0)

\* ------------------------------------------------------------ tree walking
\* The element and its descendants in document order; a "pict" element
\* holds the paragraph object heap[ref] below it.
RECURSIVE Desc(_, _)
Desc(n, heap) ==
    <<n>> \o Concat([k \in 1..Len(n.kids) |-> Desc(n.kids[k], heap)])
          \o (IF n.ref # 0 THEN Desc(heap[n.ref], heap) ELSE <<>>)

\* p.xpath(".//w:<tag>"): the proper descendants with one of the tags.
Descendants(p, heap, tags) ==
    LET all == Tail(Desc(p, heap)) IN SelectSeq(all, LAMBDA n : n.tag \in tags)

\* The handles of the paragraph objects below the element, in document order.
RECURSIVE ParaHandles(_, _)
ParaHandles(n, heap) ==
    Concat([k \in 1..Len(n.kids) |-> ParaHandles(n.kids[k], heap)])
        \o (IF n.ref # 0 THEN <<n.ref>> \o ParaHandles(heap[n.ref], heap) ELSE <<>>)

\* _iter_body_paragraphs: /w:document/w:body//w:p, every paragraph below the
\* body in document order, nested ones included.
iter_body_paragraphs(doc) ==
    Concat([k \in 1..Len(doc.body) |->
               <<doc.body[k]>> \o ParaHandles(doc.heap[doc.body[k]], doc.heap)])

\* The text one run contributes: its direct w:t / w:tab / w:br children.
RunText(r) ==
    Concat([k \in 1..Len(r.kids) |->
               IF r.kids[k].tag = "t" THEN r.kids[k].text
               ELSE IF r.kids[k].tag = "tab" THEN <<TAB>>
               ELSE IF r.kids[k].tag = "br" THEN <<NL>>
               ELSE <<>>])

\* _paragraph_text_all_runs: every descendant run (.//w:r), in document order.
paragraph_text_all_runs(p, heap) ==
    LET runs == Descendants(p, heap, {"r"})
    IN  Concat([k \in 1..Len(runs) |-> RunText(runs[k])])

\* _paragraph_is_simple
paragraph_is_simple(p, heap) ==
    LET pPr == FindChild(p.kids, "pPr")
    IN  IF pPr # None /\ p.kids # <<>> /\ p.kids[1].tag # "pPr" THEN FALSE
        ELSE IF Descendants(p, heap, {"hyperlink", "fldChar", "instrText"}) # <<>> THEN FALSE
        ELSE TRUE

\* _first_textual_run_in_paragraph
first_textual_run_in_paragraph(p, heap) ==
    LET runs == Descendants(p, heap, {"r"})
        textual == SelectSeq(runs, LAMBDA r : FindChild(r.kids, "t") # None)
    IN  IF textual # <<>> THEN textual[1]
        ELSE IF runs # <<>> THEN runs[1] ELSE None

\* ------------------------------------------------------------------- atoms
Atom(kind, start, end, run, elem, text) ==
    [kind |-> kind, start |-> start, end |-> end, run |-> run, elem |-> elem, text |-> text]

\* The inner loop of _paragraph_atoms over the children of one run.
RECURSIVE RunAtomsFrom(_, _, _)
RunAtomsFrom(run, k, pos) ==
    IF k > Len(run.kids) THEN <<>>
    ELSE LET rc == run.kids[k]
         IN  IF rc.tag = "rPr" THEN RunAtomsFrom(run, k + 1, pos)
             ELSE LET a == IF rc.tag = "t" THEN Atom("text", pos, pos + Len(rc.text), run, rc, rc.text)
                           ELSE IF rc.tag = "tab" THEN Atom("tab", pos, pos + 1, run, rc, <<TAB>>)
                           ELSE IF rc.tag = "br" THEN Atom("br", pos, pos + 1, run, rc, <<NL>>)
                           ELSE IF rc.tag = "footnoteReference" THEN Atom("fn", pos, pos, run, rc, <<>>)
                           ELSE IF rc.tag = "endnoteReference" THEN Atom("endnote", pos, pos, run, rc, <<>>)
                           ELSE Atom("run_special", pos, pos, run, rc, <<>>)
                  IN  <<a>> \o RunAtomsFrom(run, k + 1, a.end)

\* The outer loop of _paragraph_atoms over the children of the paragraph.
RECURSIVE ParaAtomsFrom(_, _, _)
ParaAtomsFrom(kids, k, pos) ==
    IF k > Len(kids) THEN <<>>
    ELSE LET child == kids[k]
         IN  IF child.tag = "pPr" THEN ParaAtomsFrom(kids, k + 1, pos)
             ELSE IF child.tag # "r"
             THEN <<Atom("p_special", pos, pos, None, child, <<>>)>> \o ParaAtomsFrom(kids, k + 1, pos)
             ELSE LET as == RunAtomsFrom(child, 1, pos)
                      np == IF as = <<>> THEN pos ELSE as[Len(as)].end
                  IN  as \o ParaAtomsFrom(kids, k + 1, np)

IsTextual(a) == a.kind \in {"text", "tab", "br"}

\* _paragraph_atoms: (atoms, old_text)
AtomsText(atoms) ==
    Concat([k \in 1..Len(atoms) |-> IF IsTextual(atoms[k]) THEN atoms[k].text ELSE <<>>])

paragraph_atoms(p) ==
    LET atoms == ParaAtomsFrom(p.kids, 1, 0)
    IN  [atoms |-> atoms, old_text |-> AtomsText(atoms)]

\* The first index (going up with step 1, down with step -1) whose flag holds, 0 if none.
RECURSIVE FirstTrue(_, _, _)
FirstTrue(flags, k, step) ==
    IF k < 1 \/ k > Len(flags) THEN 0
    ELSE IF flags[k] THEN k ELSE FirstTrue(flags, k + step, step)

\* _context_run_for_pos
context_run_for_pos(atoms, pos) ==
    LET direct(a) == \/ a.run # None /\ IsTextual(a) /\ a.start <= pos /\ pos < a.end
                     \/ a.run # None /\ a.kind = "text" /\ a.start = pos /\ a.end = pos
        behind(a) == a.run # None /\ IsTextual(a) /\ a.end <= pos
        ahead(a) == a.run # None /\ IsTextual(a) /\ a.start >= pos
        any(a) == a.run # None
        n == Len(atoms)
        k1 == FirstTrue([k \in 1..n |-> direct(atoms[k])], 1, 1)
        k2 == FirstTrue([k \in 1..n |-> behind(atoms[k])], n, -1)
        k3 == FirstTrue([k \in 1..n |-> ahead(atoms[k])], 1, 1)
        k4 == FirstTrue([k \in 1..n |-> any(atoms[k])], n, -1)
    IN  IF k1 # 0 THEN atoms[k1].run
        ELSE IF k2 # 0 THEN atoms[k2].run
        ELSE IF k3 # 0 THEN atoms[k3].run
        ELSE IF k4 # 0 THEN atoms[k4].run
        ELSE None

\* ------------------------------------------------------------------ cloning
\* A variant of _set_bold_and_highlight_yellow that adds w:b and w:highlight
\* only where the rPr has none, and keeps the values of those it finds.
set_bold_and_highlight_if_absent(rPr) ==
    LET bi == FindIndex(rPr.kids, "b", 1)
        k1 == IF bi = 0 THEN Append(rPr.kids, NewElement("b")) ELSE rPr.kids
        hi == FindIndex(k1, "highlight", 1)
        k2 == IF hi = 0 THEN Append(k1, [NewElement("highlight") EXCEPT !.val = "yellow"])
              ELSE k1
    IN  [rPr EXCEPT !.kids = k2]

\* _set_bold_and_highlight_yellow, as the new value of the rPr element.
set_bold_and_highlight_yellow(rPr) ==
    LET bi == FindIndex(rPr.kids, "b", 1)
        k1 == IF bi = 0 THEN Append(rPr.kids, NewElement("b"))
              ELSE [rPr.kids EXCEPT ![bi].val = "1"]
        hi == FindIndex(k1, "highlight", 1)
        k2 == IF hi = 0 THEN Append(k1, [NewElement("highlight") EXCEPT !.val = "yellow"])
              ELSE [k1 EXCEPT ![hi].val = "yellow"]
    IN  [rPr EXCEPT !.kids = k2]

\* _run_rPr
run_rPr(run) == FindChild(run.kids, "rPr")

\* A variant of _clone_run_with_rPr that copies the attributes of the run but
\* not its w:rPr.
clone_run_without_rPr(src_run) ==
    IF src_run = None THEN NewElement("r")
    ELSE [NewElement("r") EXCEPT !.val = src_run.val]

\* _clone_run_with_rPr
clone_run_with_rPr(src_run) ==
    IF src_run = None THEN NewElement("r")
    ELSE LET rPr == run_rPr(src_run)
         IN  [NewElement("r") EXCEPT
                 !.val = src_run.val,
                 !.kids = IF rPr # None THEN <<deepcopy(rPr)>> ELSE <<>>]

\* A variant of _clone_run_for_changed_text that marks the clone whatever the
\* markup flag is.
clone_run_always_marked(context_run, markup) ==
    LET r == clone_run_with_rPr(context_run)
        q == IF FindChild(r.kids, "rPr") = None
             THEN [r EXCEPT !.kids = <<NewElement("rPr")>> \o r.kids] ELSE r
        ri == FindIndex(q.kids, "rPr", 1)
    IN  [q EXCEPT !.kids[ri] = set_bold_and_highlight_yellow(q.kids[ri])]

\* _clone_run_for_changed_text
mark_rPr(r) ==
    \* r holds a w:rPr child
    LET ri == FindIndex(r.kids, "rPr", 1)
    IN  [r EXCEPT !.kids[ri] = set_bold_and_highlight_yellow(r.kids[ri])]

mark_run(r) ==
    IF FindChild(r.kids, "rPr") = None
    THEN mark_rPr([r EXCEPT !.kids = <<NewElement("rPr")>> \o r.kids])
    ELSE mark_rPr(r)

clone_run_for_changed_text(context_run, markup) ==
    IF ~markup THEN clone_run_with_rPr(context_run)
    ELSE mark_run(clone_run_with_rPr(context_run))

\* r.append(child)
AppendChild(r, child) == [r EXCEPT !.kids = Append(r.kids, child)]

\* text_override=None of _emit_atom (no character of a text is "None").
NoOverride == <<"None">>

\* _emit_atom
emit_atom(atom, text_override) ==
    IF atom.kind = "p_special" THEN deepcopy(atom.elem)
    ELSE LET run == clone_run_with_rPr(atom.run)
         IN  IF atom.kind = "text"
             THEN AppendChild(run, T_(IF text_override # NoOverride THEN text_override ELSE atom.text))
             ELSE AppendChild(run, deepcopy(atom.elem))

\* The index just after the chunk of text[i..] free of tab and newline (0-based).
RECURSIVE ChunkEnd(_, _)
ChunkEnd(text, j) ==
    IF j < Len(text) /\ text[j + 1] \notin {TAB, NL} THEN ChunkEnd(text, j + 1) ELSE j

\* The while loop of _emit_changed_text from offset i.
RECURSIVE EmitChangedFrom(_, _, _, _)
EmitChangedFrom(text, i, context_run, markup) ==
    IF i >= Len(text) THEN <<>>
    ELSE LET ch == text[i + 1]
             j == IF ch \in {TAB, NL} THEN i + 1 ELSE ChunkEnd(text, i)
             child == IF ch = TAB THEN NewElement("tab")
                      ELSE IF ch = NL THEN NewElement("br")
                      ELSE T_(Slice(text, i, j))
         IN  <<AppendChild(clone_run_for_changed_text(context_run, markup), child)>>
             \o EmitChangedFrom(text, j, context_run, markup)

\* _emit_changed_text
emit_changed_text(text, context_run, markup) ==
    IF text = <<>> THEN <<>> ELSE EmitChangedFrom(text, 0, context_run, markup)

\* A variant of _rewrite_paragraph_in_place that appends the new children
\* without removing the previous ones.
rewrite_paragraph_append_only(p, new_children) == [p EXCEPT !.kids = p.kids \o new_children]

\* _rewrite_paragraph_in_place, as the new value of the paragraph element:
\* every child but the first w:pPr is removed, the new children follow it.
rewrite_paragraph_in_place(p, new_children) ==
    LET pi == FindIndex(p.kids, "pPr", 1)
    IN  IF pi = 0 THEN [p EXCEPT !.kids = new_children]
        ELSE [p EXCEPT !.kids = <<p.kids[pi]>> \o new_children]

\* ---------------------------------------------------- fine diff (per paragraph)
\* The token -> char offset tables (old_tok_starts / new_tok_starts).
tok_starts(tokens) ==
    [k \in 1..Len(tokens) |-> SeqSum([m \in 1..(k - 1) |-> Len(tokens[m])])]

\* A variant of old_char_range whose end is the start of the last token of
\* the range instead of its end.
old_char_range_ToLastTokenStart(old_tokens, i1, i2) ==
    LET old_tok_starts == tok_starts(old_tokens)
        old_total == SeqSum([m \in 1..Len(old_tokens) |-> Len(old_tokens[m])])
    IN  IF i1 = i2
        THEN LET at == IF i1 < Len(old_tok_starts) THEN old_tok_starts[i1 + 1] ELSE old_total
             IN  <<at, at>>
        ELSE <<old_tok_starts[i1 + 1], old_tok_starts[i2]>>

\* old_char_range(i1, i2) over 0-based token indexes.
old_char_range(old_tokens, i1, i2) ==
    LET old_tok_starts == tok_starts(old_tokens)
        old_total == SeqSum([m \in 1..Len(old_tokens) |-> Len(old_tokens[m])])
    IN  IF i1 = i2
        THEN LET at == IF i1 < Len(old_tok_starts) THEN old_tok_starts[i1 + 1] ELSE old_total
             IN  <<at, at>>
        ELSE <<old_tok_starts[i1 + 1], old_tok_starts[i2] + Len(old_tokens[i2])>>

\* new_char_range(j1, j2) over 0-based token indexes.
new_char_range(new_tokens, new_text, j1, j2) ==
    LET new_tok_starts == tok_starts(new_tokens)
    IN  IF j1 = j2
        THEN LET at == IF j1 < Len(new_tok_starts) THEN new_tok_starts[j1 + 1] ELSE Len(new_text)
             IN  <<at, at>>
        ELSE <<new_tok_starts[j1 + 1], new_tok_starts[j2] + Len(new_tokens[j2])>>

\* What emit_old_segment appends for atom k, given the specials emitted so far
\* (emitted_specials holds atom indexes: one atom per element object).
emit_old_atom(atoms, k, start, end, include_text, emitted) ==
    LET a == atoms[k]
    IN  IF a.kind = "text"
        THEN IF ~include_text THEN <<>>
             ELSE IF a.end <= start \/ a.start >= end THEN <<>>
             ELSE LET s == Max2(start, a.start)
                      e == Min2(end, a.end)
                  IN  IF s >= e THEN <<>>
                      ELSE <<emit_atom(a, Slice(a.text, s - a.start, e - a.start))>>
        ELSE IF a.kind \in {"tab", "br"}
        THEN IF ~include_text THEN <<>>
             ELSE IF a.start >= start /\ a.end <= end THEN <<emit_atom(a, NoOverride)>> ELSE <<>>
        ELSE IF start <= a.start /\ a.start <= end /\ k \notin emitted
             THEN <<emit_atom(a, NoOverride)>> ELSE <<>>

\* emit_old_segment from atom k on: [out, emitted].
RECURSIVE emit_old_segment(_, _, _, _, _, _)
emit_old_rest(here, atoms, k, start, end, include_text, emitted) ==
    \* here is what atom k emitted
    LET rest == emit_old_segment(atoms, k + 1, start, end, include_text,
                                 IF here # <<>> /\ ~IsTextual(atoms[k]) THEN emitted \cup {k} ELSE emitted)
    IN  [out |-> here \o rest.out, emitted |-> rest.emitted]

emit_old_segment(atoms, k, start, end, include_text, emitted) ==
    IF k > Len(atoms) THEN [out |-> <<>>, emitted |-> emitted]
    ELSE emit_old_rest(emit_old_atom(atoms, k, start, end, include_text, emitted),
                       atoms, k, start, end, include_text, emitted)

\* A variant of the loop body that, for an equal opcode, emits the anchors of
\* the range before its text.
emit_range_anchors_first(tag, o_start, o_end, n_start, n_end, atoms, new_text, markup, emitted) ==
    LET ins == IF tag \in {"replace", "insert"}
               THEN emit_changed_text(Slice(new_text, n_start, n_end),
                                      context_run_for_pos(atoms, o_start), markup)
               ELSE <<>>
        old == IF tag \in {"replace", "delete", "equal"}
               THEN emit_old_segment(atoms, 1, o_start, o_end, FALSE, emitted)
               ELSE [out |-> <<>>, emitted |-> emitted]
        txt == IF tag = "equal"
               THEN emit_old_segment(atoms, 1, o_start, o_end, TRUE, old.emitted).out
               ELSE <<>>
    IN  [out |-> ins \o old.out \o txt, emitted |-> old.emitted]

\* The body of the loop over the opcodes for one opcode: [out, emitted].
emit_range(tag, o_start, o_end, n_start, n_end, atoms, new_text, markup, emitted) ==
    IF tag = "equal" THEN emit_old_segment(atoms, 1, o_start, o_end, TRUE, emitted)
    ELSE LET ins == IF tag \in {"replace", "insert"}
                    THEN emit_changed_text(Slice(new_text, n_start, n_end),
                                           context_run_for_pos(atoms, o_start), markup)
                    ELSE <<>>
             old == IF tag \in {"replace", "delete"}
                    THEN emit_old_segment(atoms, 1, o_start, o_end, FALSE, emitted)
                    ELSE [out |-> <<>>, emitted |-> emitted]
         IN  [out |-> ins \o old.out, emitted |-> old.emitted]

emit_opcode(op, atoms, old_tokens, new_tokens, new_text, markup, emitted) ==
    LET o == old_char_range(old_tokens, op[2], op[3])
        n == new_char_range(new_tokens, new_text, op[4], op[5])
    IN  emit_range(op[1], o[1], o[2], n[1], n[2], atoms, new_text, markup, emitted)

\* The loop over the opcodes from opcode k on: new_children.
RECURSIVE emit_opcodes(_, _, _, _, _, _, _, _)
emit_rest(r, opcodes, k, atoms, old_tokens, new_tokens, new_text, markup) ==
    \* r = [out, emitted] is what opcode k emitted
    r.out \o emit_opcodes(opcodes, k + 1, atoms, old_tokens, new_tokens, new_text, markup, r.emitted)

emit_opcodes(opcodes, k, atoms, old_tokens, new_tokens, new_text, markup, emitted) ==
    IF k > Len(opcodes) THEN <<>>
    ELSE emit_rest(emit_opcode(opcodes[k], atoms, old_tokens, new_tokens, new_text, markup, emitted),
                   opcodes, k, atoms, old_tokens, new_tokens, new_text, markup)

\* The locals of one per-paragraph call, kept for inspection.
Call(path, changed, atoms, old_text, new_text, opcodes, context_run, new_children) ==
    [path |-> path, changed |-> changed, atoms |-> atoms, old_text |-> old_text,
     new_text |-> new_text, opcodes |-> opcodes, context_run |-> context_run,
     new_children |-> new_children]

\* _apply_diff_to_paragraph up to the splice: its return value and its locals.
diff_opcodes(atoms, old_text, new_text, old_tokens, new_tokens, opcodes, markup) ==
    Call("diff", TRUE, atoms, old_text, new_text, opcodes, None,
         emit_opcodes(opcodes, 1, atoms, old_tokens, new_tokens, new_text, markup, {}))

diff_tokens(atoms, old_text, new_text, old_tokens, new_tokens, markup) ==
    diff_opcodes(atoms, old_text, new_text, old_tokens, new_tokens,
                 get_opcodes(old_tokens, new_tokens), markup)

diff_atoms(atoms, old_text, new_text, markup) ==
    IF old_text = new_text
    THEN Call("diff", FALSE, atoms, old_text, new_text, <<>>, None, <<>>)
    ELSE diff_tokens(atoms, old_text, new_text, tokenize(old_text), tokenize(new_text), markup)

apply_diff_to_paragraph(p, new_text, markup) ==
    LET pa == paragraph_atoms(p)
    IN  diff_atoms(pa.atoms, pa.old_text, new_text, markup)

\* A variant of _apply_full_replace_to_paragraph without the early return on
\* equal texts.
full_replace_always(old_text, new_text, context_run, markup) ==
    Call("replace", TRUE, <<>>, old_text, new_text, <<>>, context_run,
         emit_changed_text(new_text, context_run, markup))

\* _apply_full_replace_to_paragraph up to the splice.
full_replace(old_text, new_text, context_run, markup) ==
    IF old_text = new_text
    THEN Call("replace", FALSE, <<>>, old_text, new_text, <<>>, None, <<>>)
    ELSE Call("replace", TRUE, <<>>, old_text, new_text, <<>>, context_run,
              emit_changed_text(new_text, context_run, markup))

apply_full_replace_to_paragraph(p, heap, new_text, markup) ==
    full_replace(paragraph_text_all_runs(p, heap), new_text,
                 first_textual_run_in_paragraph(p, heap), markup)

\* ---------------------------------------------------- object heap and splice
\* The handles named below the elements (not looking into the heap), in order.
RECURSIVE RefsOf(_)
RefsOf(nodes) ==
    IF nodes = <<>> THEN <<>>
    ELSE (IF Head(nodes).ref # 0 THEN <<Head(nodes).ref>> ELSE <<>>)
         \o RefsOf(Head(nodes).kids) \o RefsOf(Tail(nodes))

RECURSIVE Remap(_, _)
Remap(n, m) ==
    [n EXCEPT !.ref = IF n.ref # 0 THEN m[n.ref] ELSE 0,
              !.kids = [k \in 1..Len(n.kids) |-> Remap(n.kids[k], m)]]

\* deepcopy of an element that holds a nested paragraph copies the paragraph
\* object too: the copies are new objects at the end of the heap.  Nested
\* paragraphs hold no further paragraphs (depth 1).
SpliceCopies(new_children, heap) ==
    LET refs == RefsOf(new_children)
        m == [h \in {refs[k] : k \in 1..Len(refs)} |->
                 Len(heap) + (CHOOSE k \in 1..Len(refs) : refs[k] = h /\ \A j \in 1..(k - 1) : refs[j] # h)]
    IN  [nodes |-> [k \in 1..Len(new_children) |-> Remap(new_children[k], m)],
         heap |-> heap \o [k \in 1..Len(refs) |-> deepcopy(heap[refs[k]])]]

\* Handles of the paragraph objects attached to the tree below the body.
Attached(doc) == {iter_body_paragraphs(doc)[k] : k \in 1..Len(iter_body_paragraphs(doc))}

\* etree.tostring of the tree: the elements with nested paragraphs in place.
RECURSIVE Expand(_, _)
Expand(n, heap) ==
    [n EXCEPT !.ref = 0, !.gen = 0, !.id = 0,
              !.kids = [k \in 1..Len(n.kids) |-> Expand(n.kids[k], heap)]
                       \o (IF n.ref # 0 THEN <<Expand(heap[n.ref], heap)>> ELSE <<>>)]

Serialize(doc) == [k \in 1..Len(doc.body) |-> Expand(doc.heap[doc.body[k]], doc.heap)]

\* _split_amended_text_to_paragraphs
RECURSIVE NormalizeNewlines(_)
NormalizeNewlines(s) ==
    \* text.replace("\r\n", "\n").replace("\r", "\n")
    IF s = <<>> THEN <<>>
    ELSE IF Head(s) = CR /\ Len(s) >= 2 /\ s[2] = NL THEN <<NL>> \o NormalizeNewlines(Tail(Tail(s)))
    ELSE IF Head(s) = CR THEN <<NL>> \o NormalizeNewlines(Tail(s))
    ELSE <<Head(s)>> \o NormalizeNewlines(Tail(s))

RECURSIVE StripNewlines(_)
StripNewlines(s) ==
    \* .strip("\n")
    IF s = <<>> THEN <<>>
    ELSE IF Head(s) = NL THEN StripNewlines(Tail(s))
    ELSE IF s[Len(s)] = NL THEN StripNewlines(SubSeq(s, 1, Len(s) - 1))
    ELSE s

RECURSIVE StripLeadingNL(_)
StripLeadingNL(s) == IF s # <<>> /\ Head(s) = NL THEN StripLeadingNL(Tail(s)) ELSE s

\* re.split(r"\n{2,}", s), cur the piece being read.
RECURSIVE SplitBlank(_, _)
SplitBlank(s, cur) ==
    IF s = <<>> THEN <<cur>>
    ELSE IF Len(s) >= 2 /\ s[1] = NL /\ s[2] = NL
    THEN LET rest == StripLeadingNL(s) IN <<cur>> \o SplitBlank(rest, <<>>)
    ELSE SplitBlank(Tail(s), Append(cur, Head(s)))

split_amended_text_to_paragraphs(text) ==
    LET cleaned == StripNewlines(NormalizeNewlines(text))
    IN  IF cleaned = <<>> THEN <<>> ELSE SplitBlank(cleaned, <<>>)

\* ------------------------------------------------------------------- inputs
\* Formatting subtrees (w:rPr) of the runs drawn below.
Prop(tag, val) == E(tag, 0, val, <<>>, <<>>, 0)
RPrItalic == E("rPr", 0, "none", <<>>, <<Prop("i", "none")>>, 0)
RPrPlainGreen ==
    E("rPr", 0, "none", <<>>, <<Prop("rFonts", "TNR"), Prop("b", "0"), Prop("highlight", "green")>>, 0)
RPrSuper == E("rPr", 0, "none", <<>>, <<Prop("vertAlign", "superscript")>>, 0)
RPrBoldYellow == E("rPr", 0, "none", <<>>, <<Prop("b", "none"), Prop("highlight", "yellow")>>, 0)

Run(val, kids) == E("r", 0, val, <<>>, kids, 0)
Txt(text) == E("t", 0, "none", text, <<>>, 0)
Leaf(tag) == E(tag, 0, "none", <<>>, <<>>, 0)

\* Paragraph children drawn for one-paragraph documents.
KpPr == Leaf("pPr")
KItalicAB == Run("none", <<RPrItalic, Txt(<<"a", SP, "b">>)>>)
KPlainA == Run("rsid7", <<Txt(<<"a">>)>>)
KGreenA == Run("none", <<RPrPlainGreen, Txt(<<SP, "a">>)>>)
KBoldYellowA == Run("none", <<RPrBoldYellow, Txt(<<"a">>)>>)
KTab == Run("none", <<Leaf("tab")>>)
KBreakA == Run("none", <<RPrItalic, Leaf("br"), Txt(<<"a">>)>>)
KFootnote == Run("none", <<RPrSuper, Leaf("footnoteReference")>>)
KEndnoteMid == Run("none", <<Txt(<<"a">>), Leaf("endnoteReference"), Txt(<<"a">>)>>)
KDrawing == Run("none", <<Leaf("drawing")>>)
KEmptyText == Run("none", <<RPrItalic, Txt(<<>>)>>)
\* A run with formatting and no content.
KEmptyRun == Run("none", <<RPrItalic>>)
KBookmark == Leaf("bookmarkStart")
KSmartTag == E("smartTag", 0, "none", <<>>, <<Run("none", <<Txt(<<"b">>)>>)>>, 0)
KHyperlink == E("hyperlink", 0, "none", <<>>, <<Run("none", <<RPrItalic, Txt(<<"b">>)>>)>>, 0)
KField == Run("none", <<Leaf("fldChar")>>)
\* A run holding a text box: the nested paragraph is the next object of the heap.
KTextBox == Run("none", <<E("pict", 0, "none", <<>>, <<>>, 1)>>)

Palette ==
    {KpPr, KItalicAB, KPlainA, KGreenA, KTab, KBreakA, KFootnote, KEndnoteMid,
     KDrawing, KEmptyText, KBookmark, KSmartTag, KHyperlink, KField, KBoldYellowA,
     KEmptyRun}

\* The children that are paired with one another in every order.
CorePalette == {KpPr, KItalicAB, KPlainA, KGreenA, KTab, KFootnote, KEndnoteMid, KBookmark}

\* Longer or rarer paragraphs: the smoke test's three runs, anchors between
\* texts, anchors next to complex content, a properties node that is not first.
LongShapes ==
    {<<KpPr, KPlainA, KGreenA>>,
     <<KpPr, KItalicAB, KFootnote>>,
     <<KPlainA, KFootnote, KGreenA>>,
     <<KpPr, KFootnote, KBookmark>>,
     <<KPlainA, KTab, KItalicAB>>,
     <<KBookmark, KItalicAB, KDrawing, KGreenA>>,
     <<KBreakA, KItalicAB>>,
     <<KEmptyText, KFootnote>>,
     <<KDrawing, KPlainA>>,
     <<KPlainA, KSmartTag>>,
     <<KSmartTag, KFootnote>>,
     <<KpPr, KHyperlink, KFootnote>>,
     <<KFootnote, KHyperlink>>,
     <<KPlainA, KField>>,
     <<KField, KBookmark>>,
     <<KPlainA, KpPr, KFootnote>>,
     <<KBoldYellowA, KHyperlink>>,
     <<KEmptyRun, KFootnote>>}

ParaShapes ==
    {<<>>} \cup {<<k>> : k \in Palette} \cup {<<k1, k2>> : k1, k2 \in CorePalette} \cup LongShapes

\* Element identities: child k of the element with identity b is 10 b + k.
RECURSIVE Renum(_, _)
Renum(n, b) == [n EXCEPT !.id = b, !.kids = [k \in 1..Len(n.kids) |-> Renum(n.kids[k], 10 * b + k)]]

Para(kids) == E("p", 0, "none", <<>>, [k \in 1..Len(kids) |-> Renum(kids[k], k)], 0)

\* A paragraph of the input: its children and, for a text box, the children
\* of the one paragraph nested in it.
PSpec(kids, inner) == [kids |-> kids, inner |-> inner]

RECURSIVE Rebase(_, _)
Rebase(n, h) ==
    [n EXCEPT !.ref = IF n.ref # 0 THEN h + n.ref ELSE 0,
              !.kids = [k \in 1..Len(n.kids) |-> Rebase(n.kids[k], h)]]

\* The parsed document: the paragraph objects in document order and the
\* handles of the body's own paragraphs.
RECURSIVE BuildDoc(_, _, _)
BuildDoc(specs, heap, body) ==
    IF specs = <<>> THEN [heap |-> heap, body |-> body]
    ELSE LET h == Len(heap) + 1
             sp == Head(specs)
             P == Rebase(Para(sp.kids), h)
             heap1 == Append(heap, P) \o [k \in 1..Len(sp.inner) |-> Para(sp.inner[k])]
         IN  BuildDoc(Tail(specs), heap1, Append(body, h))

Doc(specs) == BuildDoc(specs, <<>>, <<>>)

\* A paragraph that flattens to the text: one run per tab, break or chunk.
RECURSIVE TextKids(_)
TextKids(text) ==
    IF text = <<>> THEN <<>>
    ELSE IF Head(text) = TAB THEN <<Run("none", <<Leaf("tab")>>)>> \o TextKids(Tail(text))
    ELSE IF Head(text) = NL THEN <<Run("none", <<Leaf("br")>>)>> \o TextKids(Tail(text))
    ELSE LET j == ChunkEnd(text, 0)
         IN  <<Run("none", <<Txt(Slice(text, 0, j))>>)>> \o TextKids(Slice(text, j, Len(text)))

Texts == SeqsUpTo(Alphabet, MaxTextLen)

\* Paragraphs of multi-paragraph documents.
SmallSpecs ==
    {PSpec(<<KpPr, KPlainA>>, <<>>),
     PSpec(<<KHyperlink>>, <<>>),
     PSpec(<<KItalicAB, KTextBox>>, << <<KGreenA>> >>),
     PSpec(<<KField, KTextBox>>, << <<KPlainA>> >>)}

AmendSpecs ==
    {PSpec(<<KPlainA>>, <<>>),
     PSpec(<<KHyperlink>>, <<>>),
     PSpec(<<KItalicAB, KTextBox>>, << <<KGreenA>> >>),
     PSpec(TextKids(<<"b", TAB>>), <<>>)}

\* Amended plain-text files: paragraphs joined by blank lines.
RawParas == {<<"a">>, <<"b", NL, "a">>}
RawSeps == {<<NL, NL>>, <<CR, NL, CR, NL, NL>>}

RECURSIVE RawTexts(_)
RawTexts(n) ==
    IF n = 0 THEN {<<>>, <<NL>>}
    ELSE IF n = 1 THEN {t : t \in RawParas} \cup {<<NL>> \o t \o <<CR>> : t \in RawParas}
    ELSE {r \o s \o t : r \in RawTexts(n - 1), s \in RawSeps, t \in RawParas}

\* -------------------------------------------------------------------- state
VARIABLES
    pc,            \* "start", "loaded", "loop", "done", "error"
    mode,          \* "docx": refine_from_amended, "text": refine_from_amended_text
    markup,        \* the markup flag
    original_docx, \* word/document.xml of the original file: [heap, body]
    amended_docx,  \* word/document.xml of the amended file (mode "docx")
    amended_text,  \* the contents of amended_text_path (mode "text")
    orig_root,     \* the parsed, mutable tree of the original
    amend_root,    \* the parsed tree of the amended document
    orig_paras,    \* handles of the original's paragraphs
    amend_paras,   \* handles of the amended paragraphs / the amended texts
    idx,           \* position of the loop over the pairs (1-based)
    changed,
    skipped,
    out,           \* the output file: [written, tree]
    err,           \* the ValueError raised: [raised, orig, amended]
    last           \* the most recent per-paragraph call

vars == <<pc, mode, markup, original_docx, amended_docx, amended_text, orig_root, amend_root,
          orig_paras, amend_paras, idx, changed, skipped, out, err, last>>

NoCall == [para |-> 0, simple |-> FALSE, before |-> None,
           call |-> Call("none", FALSE, <<>>, <<>>, <<>>, <<>>, None, <<>>)]

EmptyDoc == Doc(<<>>)

InitRest ==
    /\ pc = "start"
    /\ markup \in BOOLEAN
    /\ orig_root = EmptyDoc
    /\ amend_root = EmptyDoc
    /\ orig_paras = <<>>
    /\ amend_paras = <<>>
    /\ idx = 0
    /\ changed = 0
    /\ skipped = 0
    /\ out = [written |-> FALSE, tree |-> <<>>]
    /\ err = [raised |-> FALSE, orig |-> 0, amended |-> 0]
    /\ last = NoCall

\* One paragraph of any shape against any amended text, or against a copy of
\* the original file.
InitPara ==
    /\ mode = "docx"
    /\ \E kids \in ParaShapes : original_docx = Doc(<<PSpec(kids, <<>>)>>)
    /\ \/ \E t \in Texts : amended_docx = Doc(<<PSpec(TextKids(t), <<>>)>>)
       \/ amended_docx = original_docx
    /\ amended_text = <<>>
    /\ InitRest

\* Documents of up to MaxParas body paragraphs against amended documents.
InitDocx ==
    /\ mode = "docx"
    /\ \E specs \in SeqsUpTo(SmallSpecs, MaxParas) : original_docx = Doc(specs)
    /\ \E specs \in SeqsUpTo(AmendSpecs, MaxParas) : amended_docx = Doc(specs)
    /\ amended_text = <<>>
    /\ InitRest

\* Documents of up to MaxParas body paragraphs against amended text files.
InitText ==
    /\ mode = "text"
    /\ \E specs \in SeqsUpTo(SmallSpecs, MaxParas) : original_docx = Doc(specs)
    /\ amended_docx = EmptyDoc
    /\ \E n \in 0..MaxParas : amended_text \in RawTexts(n)
    /\ InitRest

Init == InitPara \/ InitDocx \/ InitText

\* ------------------------------------------------------------------ actions
\* Lines 412-416 / 455-459: parse the inputs and list the paragraphs.
Load ==
    /\ pc = "start"
    /\ pc' = "loaded"
    /\ orig_root' = original_docx
    /\ amend_root' = amended_docx
    /\ orig_paras' = iter_body_paragraphs(original_docx)
    /\ amend_paras' = IF mode = "docx" THEN iter_body_paragraphs(amended_docx)
                      ELSE split_amended_text_to_paragraphs(amended_text)
    /\ UNCHANGED <<mode, markup, original_docx, amended_docx, amended_text,
                   idx, changed, skipped, out, err, last>>

\* A variant of the guard that lets an amended source with more paragraphs
\* than the original through.
paragraph_count_fewer(n, m) == n > m

\* Lines 418 / 461: the guard of the ValueError.
paragraph_count_mismatch(n, m) == n # m

\* Lines 418-422 / 461-465: raise ValueError naming both counts.
RaiseMismatch ==
    /\ pc = "loaded"
    /\ paragraph_count_mismatch(Len(orig_paras), Len(amend_paras))
    /\ pc' = "error"
    /\ err' = [raised |-> TRUE, orig |-> Len(orig_paras), amended |-> Len(amend_paras)]
    /\ UNCHANGED <<mode, markup, original_docx, amended_docx, amended_text, orig_root,
                   amend_root, orig_paras, amend_paras, idx, changed, skipped, out, last>>

\* Lines 424-426 / 467-469: the counters start at 0, the loop at the first pair.
BeginLoop ==
    /\ pc = "loaded"
    /\ ~paragraph_count_mismatch(Len(orig_paras), Len(amend_paras))
    /\ pc' = "loop"
    /\ changed' = 0
    /\ skipped' = 0
    /\ idx' = 1
    /\ UNCHANGED <<mode, markup, original_docx, amended_docx, amended_text, orig_root,
                   amend_root, orig_paras, amend_paras, out, err, last>>

\* The amended text of pair k (line 427; the list element in text mode).
NewText(k) ==
    IF mode = "docx"
    THEN paragraph_text_all_runs(amend_root.heap[amend_paras[k]], amend_root.heap)
    ELSE amend_paras[k]

\* The heap after the paragraph with handle h is rewritten with new_children.
Spliced(h, new_children) ==
    LET sc == SpliceCopies(new_children, orig_root.heap)
    IN  [sc.heap EXCEPT ![h] = rewrite_paragraph_in_place(orig_root.heap[h], sc.nodes)]

\* The effect of a per-paragraph call on the tree and on the record of the call.
Applied(h, simple, call) ==
    IF call.changed
    THEN /\ orig_root' = [orig_root EXCEPT !.heap = Spliced(h, call.new_children)]
         /\ last' = [para |-> h, simple |-> simple, before |-> orig_root.heap[h], call |-> call]
    ELSE /\ orig_root' = orig_root
         /\ last' = [para |-> h, simple |-> simple, before |-> orig_root.heap[h], call |-> call]

\* Lines 428-430 / 470-472: a simple paragraph goes through the fine diff.
SimpleCounted(h, call) ==
    /\ Applied(h, TRUE, call)
    /\ changed' = IF call.changed THEN changed + 1 ELSE changed
    /\ skipped' = skipped

\* zip() pairs the two lists up to the shorter one (lines 427, 470).
PairCount == Min2(Len(orig_paras), Len(amend_paras))

StepSimple ==
    /\ pc = "loop"
    /\ idx <= PairCount
    /\ paragraph_is_simple(orig_root.heap[orig_paras[idx]], orig_root.heap)
    /\ SimpleCounted(orig_paras[idx],
                     apply_diff_to_paragraph(orig_root.heap[orig_paras[idx]], NewText(idx), markup))
    /\ idx' = idx + 1
    /\ UNCHANGED <<pc, mode, markup, original_docx, amended_docx, amended_text, amend_root,
                   orig_paras, amend_paras, out, err>>

\* A variant of lines 431-437 that counts every complex paragraph as skipped.
ComplexCountedAlwaysSkipped(h, call) ==
    /\ Applied(h, FALSE, call)
    /\ changed' = IF call.changed THEN changed + 1 ELSE changed
    /\ skipped' = skipped + 1

\* Lines 431-437 / 473-477: a complex paragraph is replaced as a whole or skipped.
ComplexCounted(h, call) ==
    /\ Applied(h, FALSE, call)
    /\ changed' = IF call.changed THEN changed + 1 ELSE changed
    /\ skipped' = IF call.changed THEN skipped ELSE skipped + 1

StepComplex ==
    /\ pc = "loop"
    /\ idx <= PairCount
    /\ ~paragraph_is_simple(orig_root.heap[orig_paras[idx]], orig_root.heap)
    /\ ComplexCounted(orig_paras[idx],
                      apply_full_replace_to_paragraph(orig_root.heap[orig_paras[idx]],
                                                      orig_root.heap, NewText(idx), markup))
    /\ idx' = idx + 1
    /\ UNCHANGED <<pc, mode, markup, original_docx, amended_docx, amended_text, amend_root,
                   orig_paras, amend_paras, out, err>>

\* Lines 439-440 / 479-480: write the output file and return the counters.
WriteOutput ==
    /\ pc = "loop"
    /\ idx > PairCount
    /\ pc' = "done"
    /\ out' = [written |-> TRUE, tree |-> Serialize(orig_root)]
    /\ UNCHANGED <<mode, markup, original_docx, amended_docx, amended_text, orig_root,
                   amend_root, orig_paras, amend_paras, idx, changed, skipped, err, last>>

Next ==
    \/ Load
    \/ RaiseMismatch
    \/ BeginLoop
    \/ StepSimple
    \/ StepComplex
    \/ WriteOutput

Spec == Init /\ [][Next]_vars

\* --------------------------------------------------------------- properties
\* A per-paragraph call has just returned; last holds its locals.  (The
\* state after the output is written holds the same call as the one before.)
Called == pc = "loop" /\ last.para # 0

\* The paragraph of the most recent call as it is in the tree now.
Rewritten == orig_root.heap[last.para]

\* The text a paragraph is compared with the amended text by: the text of
\* the Paragraph Flattener for a simple paragraph, the text of all its runs
\* for a complex one.
OldTextOf(p, simple, heap) ==
    IF simple THEN paragraph_atoms(p).old_text ELSE paragraph_text_all_runs(p, heap)

\* The amended text of the most recent call.
LastNewText == NewText(idx - 1)

\* The most recent call had an amended text different from the paragraph's.
Differed ==
    Called /\ OldTextOf(last.before, last.simple, orig_root.heap) # LastNewText

\* The character ranges of an opcode of the most recent call.
OldRange(op) == old_char_range(tokenize(last.call.old_text), op[2], op[3])
NewRange(op) ==
    new_char_range(tokenize(last.call.new_text), last.call.new_text, op[4], op[5])

\* C1 (text fidelity): whenever the amended text N of a paragraph differs
\* from the paragraph's flattened text, the flattened text of the rewritten
\* paragraph (texts in document order, a tab per w:tab, a newline per w:br)
\* is N; after a whole-paragraph replacement the text of all runs is N too.
C1_TextFidelity ==
    Differed =>
        /\ paragraph_atoms(Rewritten).old_text = LastNewText
        /\ ~last.simple => paragraph_text_all_runs(Rewritten, orig_root.heap) = LastNewText

\* A fine diff in which an equal range ends in the middle of a text atom.
C1_Witness_EqualEndsInsideAtom ==
    /\ Differed
    /\ last.simple
    /\ \E k \in 1..Len(last.call.opcodes), a \in 1..Len(last.call.atoms) :
          /\ last.call.opcodes[k][1] = "equal"
          /\ last.call.atoms[a].kind = "text"
          /\ last.call.atoms[a].start < OldRange(last.call.opcodes[k])[2]
          /\ OldRange(last.call.opcodes[k])[2] < last.call.atoms[a].end

\* The emitted child c is the copy of the zero-width atom a: the copy of a
\* paragraph-special element, or a run holding the copy of a run child.
IsCopyOfAtom(a, c) ==
    IF a.kind = "p_special" THEN c.tag = a.elem.tag /\ c.id = a.elem.id
    ELSE /\ c.tag = "r"
         /\ \E j \in 1..Len(c.kids) : c.kids[j].tag = a.elem.tag /\ c.kids[j].id = a.elem.id

CopiesOfAtom(a, nodes) == {j \in 1..Len(nodes) : IsCopyOfAtom(a, nodes[j])}

\* C2 (anchor preservation in the fine diff): whenever a simple paragraph is
\* given an amended text different from its flattened text, every anchor
\* atom and every paragraph-special atom of the paragraph is emitted exactly
\* once among the new children.
C2_AnchorsEmittedOnce ==
    (Differed /\ last.simple) =>
        \A k \in 1..Len(last.call.atoms) :
            ~IsTextual(last.call.atoms[k]) =>
                Cardinality(CopiesOfAtom(last.call.atoms[k], last.call.new_children)) = 1

\* An element without its identity: tag, attributes, text and children.
RECURSIVE Canon(_)
Canon(n) == <<n.tag, n.val, n.text, [k \in 1..Len(n.kids) |-> Canon(n.kids[k])]>>

\* Two runs with the same attributes and the same w:rPr subtree.
SameFormatting(r1, r2) ==
    r1.val = r2.val /\ Canon(run_rPr(r1)) = Canon(run_rPr(r2))

\* The textual atoms that hold the character at offset c.
AtomsAt(atoms, c) ==
    {k \in 1..Len(atoms) : IsTextual(atoms[k]) /\ atoms[k].start <= c /\ c < atoms[k].end}

\* The character at old offset c, owned by one atom of old_atoms, is at new
\* offset d in one atom of new_atoms of the same kind, with the same
\* character and in a run formatted as the owner's run.
KeptAt(old_atoms, c, new_atoms, d) ==
    /\ Cardinality(AtomsAt(old_atoms, c)) = 1
    /\ Cardinality(AtomsAt(new_atoms, d)) = 1
    /\ \A i \in AtomsAt(old_atoms, c), j \in AtomsAt(new_atoms, d) :
          /\ new_atoms[j].kind = old_atoms[i].kind
          /\ new_atoms[j].text[d - new_atoms[j].start + 1]
                 = old_atoms[i].text[c - old_atoms[i].start + 1]
          /\ SameFormatting(new_atoms[j].run, old_atoms[i].run)

\* The old range [lo, hi) is kept from new offset nlo on.
RangeKept(old_atoms, lo, hi, new_atoms, nlo) ==
    \A c \in lo..(hi - 1) : KeptAt(old_atoms, c, new_atoms, c - lo + nlo)

EqualSpanKept(op, new_atoms) ==
    RangeKept(last.call.atoms, OldRange(op)[1], OldRange(op)[2], new_atoms, NewRange(op)[1])

EqualSpansKept(opcodes, new_atoms) ==
    \A k \in 1..Len(opcodes) : opcodes[k][1] = "equal" => EqualSpanKept(opcodes[k], new_atoms)

\* C3 (formatting preservation on equal spans): after a fine diff every
\* character of an equal opcode is in a run with the attributes and the
\* w:rPr subtree of the run that owned it, as the same kind of node.
C3_EqualSpansKeepFormatting ==
    (Differed /\ last.simple) =>
        EqualSpansKept(last.call.opcodes, paragraph_atoms(Rewritten).atoms)

\* The identities of the runs that own the characters of the old range of op.
OwnersIn(op) ==
    {last.call.atoms[i].run.id :
        i \in UNION {AtomsAt(last.call.atoms, c) : c \in OldRange(op)[1]..(OldRange(op)[2] - 1)}}

\* With markup on, an equal range that spans two runs, one of which is also
\* the context run of text that a later or earlier opcode inserts.
C3_Witness_EqualSpansTwoRuns ==
    /\ Differed
    /\ last.simple
    /\ markup
    /\ \E k, m \in 1..Len(last.call.opcodes) :
          /\ last.call.opcodes[k][1] = "equal"
          /\ Cardinality(OwnersIn(last.call.opcodes[k])) >= 2
          /\ last.call.opcodes[m][1] \in {"insert", "replace"}
          /\ NewRange(last.call.opcodes[m])[1] < NewRange(last.call.opcodes[m])[2]
          /\ context_run_for_pos(last.call.atoms, OldRange(last.call.opcodes[m])[1]).id
                 \in OwnersIn(last.call.opcodes[k])

\* Bold is on in the rPr: a w:b without a value or with a true value.
BoldOn(rPr) ==
    /\ FindChild(rPr.kids, "b") # None
    /\ FindChild(rPr.kids, "b").val \in {"none", "1", "true", "on"}

YellowOn(rPr) ==
    /\ FindChild(rPr.kids, "highlight") # None
    /\ FindChild(rPr.kids, "highlight").val = "yellow"

\* The properties of an rPr other than bold and highlight, in order.
OtherProps(rPr) ==
    LET rest == SelectSeq(rPr.kids, LAMBDA e : e.tag \notin {"b", "highlight"})
    IN  [k \in 1..Len(rest) |-> Canon(rest[k])]

\* The run is bold and highlighted yellow and otherwise formatted as ctx.
MarkedLike(run, ctx) ==
    /\ BoldOn(run_rPr(run))
    /\ YellowOn(run_rPr(run))
    /\ run.val = ctx.val
    /\ OtherProps(run_rPr(run)) = OtherProps(run_rPr(ctx))

\* Every character of the new range [lo, hi) is in one marked run.
MarkedSpan(new_atoms, lo, hi, ctx) ==
    \A d \in lo..(hi - 1) :
        /\ Cardinality(AtomsAt(new_atoms, d)) = 1
        /\ \A j \in AtomsAt(new_atoms, d) : MarkedLike(new_atoms[j].run, ctx)

InsertedSpanMarked(op, new_atoms) ==
    MarkedSpan(new_atoms, NewRange(op)[1], NewRange(op)[2],
               context_run_for_pos(last.call.atoms, OldRange(op)[1]))

InsertedSpansMarked(opcodes, new_atoms) ==
    \A k \in 1..Len(opcodes) :
        opcodes[k][1] \in {"insert", "replace"} => InsertedSpanMarked(opcodes[k], new_atoms)

\* C4 (markup scoping, markup on): after a paragraph is rewritten with
\* markup on, every character of an insert or replace opcode (every
\* character of N after a whole-paragraph replacement) is in a run that is
\* bold and highlighted yellow and has the context run's attributes and its
\* other formatting properties.
C4_ChangedTextMarked ==
    (Differed /\ markup) =>
        IF last.simple
        THEN InsertedSpansMarked(last.call.opcodes, paragraph_atoms(Rewritten).atoms)
        ELSE MarkedSpan(paragraph_atoms(Rewritten).atoms, 0, Len(LastNewText),
                        first_textual_run_in_paragraph(last.before, orig_root.heap))

\* Text inserted next to a run whose rPr turns bold off and highlights green.
C4_Witness_ContextNotBold ==
    /\ Differed
    /\ markup
    /\ last.simple
    /\ \E k \in 1..Len(last.call.opcodes) :
          /\ last.call.opcodes[k][1] \in {"insert", "replace"}
          /\ NewRange(last.call.opcodes[k])[1] < NewRange(last.call.opcodes[k])[2]
          /\ Canon(run_rPr(context_run_for_pos(last.call.atoms,
                                               OldRange(last.call.opcodes[k])[1])))
                 = Canon(RPrPlainGreen)

\* The number of paragraphs of the amended source.
AmendedCount ==
    IF mode = "docx" THEN Len(iter_body_paragraphs(amended_docx))
    ELSE Len(split_amended_text_to_paragraphs(amended_text))

OriginalCount == Len(iter_body_paragraphs(original_docx))

\* C5 (fatal precondition): in both modes, when the original has N
\* paragraphs and the amended source M # N, the run ends in the error that
\* names N and M, with the original tree as parsed, no per-paragraph call
\* made, both counters 0 and no output written; the loop is entered only
\* with equal counts.
C5_FatalPrecondition ==
    /\ pc = "error" =>
          /\ err = [raised |-> TRUE, orig |-> OriginalCount, amended |-> AmendedCount]
          /\ OriginalCount # AmendedCount
          /\ orig_root = original_docx
          /\ last = NoCall
          /\ changed = 0
          /\ skipped = 0
          /\ out = [written |-> FALSE, tree |-> <<>>]
    /\ pc \in {"loop", "done"} => OriginalCount = AmendedCount

\* An amended text file with one paragraph fewer than the original, which
\* holds a nested paragraph.
C5_Witness_TextModeMismatch ==
    /\ pc = "error"
    /\ mode = "text"
    /\ err.orig = 3
    /\ err.amended = 2

\* An amended document with fewer paragraphs than the original, which holds
\* a nested paragraph.
C5_Witness_DocxNested ==
    /\ pc = "error"
    /\ mode = "docx"
    /\ err.orig = 3
    /\ err.amended = 1

\* Pair k as the original file has it: classification and difference.
IsSimpleOrig(k) ==
    paragraph_is_simple(original_docx.heap[orig_paras[k]], original_docx.heap)

Differs(k) ==
    OldTextOf(original_docx.heap[orig_paras[k]], IsSimpleOrig(k), original_docx.heap) # NewText(k)

\* C6 (idempotence of no-op): when every amended text equals the flattened
\* text of its original paragraph, the run ends with the tree as parsed (no
\* child added, removed, reordered or copied), changed = 0 and the output
\* equal to the serialized original.
C6_NoOpLeavesTree ==
    (pc = "done" /\ \A k \in 1..Len(orig_paras) : ~Differs(k)) =>
        /\ orig_root = original_docx
        /\ changed = 0
        /\ out = [written |-> TRUE, tree |-> Serialize(original_docx)]

\* A finished run over a simple and a complex paragraph with equal texts.
C6_Witness_SimpleAndComplexEqual ==
    /\ pc = "done"
    /\ \A k \in 1..Len(orig_paras) : ~Differs(k)
    /\ \E k \in 1..Len(orig_paras) : IsSimpleOrig(k)
    /\ \E k \in 1..Len(orig_paras) : ~IsSimpleOrig(k)

AnchorTags == {"footnoteReference", "endnoteReference"}

\* The positions of the copies of element e among the elements of a sequence.
CopiesIn(e, nodes) == {j \in 1..Len(nodes) : nodes[j].tag = e.tag /\ nodes[j].id = e.id}

AllKeptOnce(anchors, after) ==
    \A k \in 1..Len(anchors) : Cardinality(CopiesIn(anchors[k], after)) = 1

\* C7 (anchors on whole-paragraph replacement): whenever a complex paragraph
\* is given an amended text different from its text, every footnote or
\* endnote reference of the paragraph is in the rewritten paragraph exactly
\* once.
C7_AnchorsKeptOnFullReplace ==
    (Differed /\ ~last.simple) =>
        AllKeptOnce(Descendants(last.before, orig_root.heap, AnchorTags),
                    Descendants(Rewritten, orig_root.heap, AnchorTags))

\* C8 (one walk for both sides): the text computed for an amended paragraph
\* is the flattened text the Paragraph Flattener returns for it (stated for
\* the simple paragraphs, the ones the Flattener is used on), and a run over
\* simple paragraphs against a copy of the original file changes nothing.
C8_AmendedSideSameWalk ==
    /\ (mode = "docx" /\ pc # "start") =>
          \A k \in 1..Len(amend_paras) :
              paragraph_is_simple(amend_root.heap[amend_paras[k]], amend_root.heap) =>
                  NewText(k) = paragraph_atoms(amend_root.heap[amend_paras[k]]).old_text
    /\ (mode = "docx" /\ pc = "done" /\ amended_docx = original_docx
           /\ \A k \in 1..Len(orig_paras) : IsSimpleOrig(k)) =>
          /\ changed = 0
          /\ orig_root = original_docx

\* C9 (paragraph independence): during and after the loop every listed
\* paragraph is attached to the tree that is serialized, a paragraph that is
\* not yet processed is as parsed, and after the loop every paragraph whose
\* text differed carries its amended text.
C9_ListedParagraphsStayInTree ==
    pc \in {"loop", "done"} =>
        \A k \in 1..Len(orig_paras) :
            /\ orig_paras[k] \in Attached(orig_root)
            /\ k >= idx => orig_root.heap[orig_paras[k]] = original_docx.heap[orig_paras[k]]
            /\ (pc = "done" /\ Differs(k)) =>
                  paragraph_atoms(orig_root.heap[orig_paras[k]]).old_text = NewText(k)

\* The pairs processed so far.
Processed == 1..(idx - 1)

CounterValues ==
    pc \in {"loop", "done"} =>
        /\ changed = Cardinality({k \in Processed : Differs(k)})
        /\ skipped = Cardinality({k \in Processed : ~IsSimpleOrig(k) /\ ~Differs(k)})
        /\ changed + skipped <= idx - 1
        /\ changed + skipped <= Len(orig_paras)

CountersGrow ==
    /\ changed' >= changed
    /\ skipped' >= skipped
    /\ changed' + skipped' <= changed + skipped + 1

\* C10 (counter semantics): changed is the number of processed paragraphs
\* whose text differed, skipped the number of processed complex paragraphs
\* whose text was equal; a simple paragraph with equal text adds to neither,
\* no paragraph adds to both, changed + skipped never exceeds the paragraph
\* count, and no step lowers a counter.
C10_CounterSemantics == [](CounterValues) /\ [][CountersGrow]_vars

\* A finished run over three paragraphs: one rewritten, one complex and
\* equal, one simple and equal.
C10_Witness_OneOfEach ==
    /\ pc = "done"
    /\ Len(orig_paras) = 3
    /\ changed = 1
    /\ skipped = 1

\* Every character of the new range [lo, hi) is in one run with the
\* attributes and the whole w:rPr of ctx.
InheritedSpan(new_atoms, lo, hi, ctx) ==
    \A d \in lo..(hi - 1) :
        /\ Cardinality(AtomsAt(new_atoms, d)) = 1
        /\ \A j \in AtomsAt(new_atoms, d) : SameFormatting(new_atoms[j].run, ctx)

\* No character of the new range [lo, hi) is in a bold, yellow run.
UnmarkedSpan(new_atoms, lo, hi) ==
    \A d \in lo..(hi - 1) :
        \A j \in AtomsAt(new_atoms, d) :
            ~(BoldOn(run_rPr(new_atoms[j].run)) /\ YellowOn(run_rPr(new_atoms[j].run)))

InsertedSpanInherited(op, new_atoms) ==
    InheritedSpan(new_atoms, NewRange(op)[1], NewRange(op)[2],
                  context_run_for_pos(last.call.atoms, OldRange(op)[1]))

InsertedSpansInherited(opcodes, new_atoms) ==
    \A k \in 1..Len(opcodes) :
        opcodes[k][1] \in {"insert", "replace"} => InsertedSpanInherited(opcodes[k], new_atoms)

\* C11 (markup scoping, markup off): after a paragraph is rewritten with
\* markup off, every character of an insert or replace opcode (every
\* character of N after a whole-paragraph replacement) is in a run with
\* exactly the attributes and the w:rPr of the context run: nothing is
\* added, so the run is bold and highlighted only where the context run is.
C11_UnmarkedTextInherits ==
    (Differed /\ ~markup) =>
        IF last.simple
        THEN InsertedSpansInherited(last.call.opcodes, paragraph_atoms(Rewritten).atoms)
        ELSE InheritedSpan(paragraph_atoms(Rewritten).atoms, 0, Len(LastNewText),
                           first_textual_run_in_paragraph(last.before, orig_root.heap))

\* C11 as stated: with markup off no run that holds inserted or replaced
\* characters is bold and highlighted, whatever the original paragraph.
C11_NoMarkedRunWhenOff ==
    (Differed /\ ~markup) =>
        IF last.simple
        THEN \A k \in 1..Len(last.call.opcodes) :
                 last.call.opcodes[k][1] \in {"insert", "replace"} =>
                     UnmarkedSpan(paragraph_atoms(Rewritten).atoms,
                                  NewRange(last.call.opcodes[k])[1],
                                  NewRange(last.call.opcodes[k])[2])
        ELSE UnmarkedSpan(paragraph_atoms(Rewritten).atoms, 0, Len(LastNewText))

\* With markup off, text inserted next to a run that is bold and highlighted
\* yellow in the original.
C11_Witness_ContextBoldYellow ==
    /\ Differed
    /\ ~markup
    /\ last.simple
    /\ \E k \in 1..Len(last.call.opcodes) :
          /\ last.call.opcodes[k][1] \in {"insert", "replace"}
          /\ NewRange(last.call.opcodes[k])[1] < NewRange(last.call.opcodes[k])[2]
          /\ Canon(run_rPr(context_run_for_pos(last.call.atoms,
                                               OldRange(last.call.opcodes[k])[1])))
                 = Canon(RPrBoldYellow)

\* The zero-width atoms of new_atoms that are copies of the element of atom a.
CopiesAmongAtoms(a, new_atoms) ==
    {j \in 1..Len(new_atoms) :
        /\ ~IsTextual(new_atoms[j])
        /\ new_atoms[j].elem.tag = a.elem.tag
        /\ new_atoms[j].elem.id = a.elem.id}

ZeroWidth(atoms) == {i \in 1..Len(atoms) : ~IsTextual(atoms[i])}

\* The copies of the zero-width atoms are in the order of the atoms.
AnchorsInOrder(old_atoms, new_atoms) ==
    \A i1, i2 \in ZeroWidth(old_atoms) :
        i1 < i2 =>
            \A j1 \in CopiesAmongAtoms(old_atoms[i1], new_atoms),
               j2 \in CopiesAmongAtoms(old_atoms[i2], new_atoms) : j1 < j2

\* The old character at offset c, emitted at new offset d, is on the same
\* side of every emitted zero-width atom as it was.
CharKeepsSide(old_atoms, c, new_atoms, d) ==
    \A io \in AtomsAt(old_atoms, c), jn \in AtomsAt(new_atoms, d), i \in ZeroWidth(old_atoms) :
        \A j \in CopiesAmongAtoms(old_atoms[i], new_atoms) : (i < io) <=> (j < jn)

RangeKeepsSides(old_atoms, lo, hi, new_atoms, nlo) ==
    \A c \in lo..(hi - 1) : CharKeepsSide(old_atoms, c, new_atoms, c - lo + nlo)

EqualSpanKeepsSides(op, new_atoms) ==
    RangeKeepsSides(last.call.atoms, OldRange(op)[1], OldRange(op)[2], new_atoms,
                    NewRange(op)[1])

AnchorsKeepOrder(old_atoms, opcodes, new_atoms) ==
    /\ AnchorsInOrder(old_atoms, new_atoms)
    /\ \A k \in 1..Len(opcodes) :
          opcodes[k][1] = "equal" => EqualSpanKeepsSides(opcodes[k], new_atoms)

\* C12 (anchor ordering in the fine diff): after a fine diff the emitted
\* anchors and paragraph-specials are in their original relative order, and
\* every old character of an equal opcode is before (after) each emitted
\* anchor exactly when it was before (after) it in the original.
C12_AnchorsKeepOrder ==
    (Differed /\ last.simple) =>
        AnchorsKeepOrder(last.call.atoms, last.call.opcodes, paragraph_atoms(Rewritten).atoms)

\* A fine diff of a paragraph with two emitted zero-width atoms, the later
\* one exactly on the boundary between a non-empty equal opcode and the
\* opcode that follows it.
C12_Witness_AnchorOnBoundary ==
    /\ Differed
    /\ last.simple
    /\ \E i1, i2 \in ZeroWidth(last.call.atoms) :
          /\ i1 # i2
          /\ CopiesAmongAtoms(last.call.atoms[i1], paragraph_atoms(Rewritten).atoms) # {}
          /\ CopiesAmongAtoms(last.call.atoms[i2], paragraph_atoms(Rewritten).atoms) # {}
          /\ \E k \in 1..(Len(last.call.opcodes) - 1) :
                /\ last.call.opcodes[k][1] = "equal"
                /\ OldRange(last.call.opcodes[k])[1] < OldRange(last.call.opcodes[k])[2]
                /\ last.call.atoms[i2].start = OldRange(last.call.opcodes[k])[2]
                /\ last.call.atoms[i1].start < last.call.atoms[i2].start

\* The textual atoms (text, tab, break) of a paragraph by their place
\* relative to the offset pos.
TextualAtoms(atoms) == {k \in 1..Len(atoms) : IsTextual(atoms[k])}
Touching(atoms, pos) ==
    {k \in TextualAtoms(atoms) : atoms[k].start <= pos /\ pos <= atoms[k].end}
Preceding(atoms, pos) == {k \in TextualAtoms(atoms) : atoms[k].end <= pos}
Following(atoms, pos) == {k \in TextualAtoms(atoms) : atoms[k].start >= pos}
MaxOf(S) == CHOOSE k \in S : \A j \in S : j <= k
MinOf(S) == CHOOSE k \in S : \A j \in S : k <= j

\* The run ctx is the one the selection order names for pos.
SelectedInOrder(atoms, pos, ctx) ==
    IF Touching(atoms, pos) # {} THEN \E k \in Touching(atoms, pos) : ctx = atoms[k].run
    ELSE IF Preceding(atoms, pos) # {} THEN ctx = atoms[MaxOf(Preceding(atoms, pos))].run
    ELSE IF Following(atoms, pos) # {} THEN ctx = atoms[MinOf(Following(atoms, pos))].run
    ELSE IF \E k \in 1..Len(atoms) : atoms[k].run # None
         THEN \E k \in 1..Len(atoms) : atoms[k].run # None /\ ctx = atoms[k].run
    ELSE ctx = None

\* A run without a textual atom is chosen only in a paragraph without one.
TextualRunPreferred(atoms, ctx) ==
    (ctx # None /\ \A k \in TextualAtoms(atoms) : atoms[k].run # ctx) =>
        TextualAtoms(atoms) = {}

\* The runs that are children of the paragraph.
RunsOf(p) == {k \in 1..Len(p.kids) : p.kids[k].tag = "r"}

\* The selection order of the context run, for every opcode that is not
\* equal, of the most recent fine diff.
ContextRunInOrder ==
    (Differed /\ last.simple) =>
        \A k \in 1..Len(last.call.opcodes) :
            last.call.opcodes[k][1] # "equal" =>
                /\ SelectedInOrder(last.call.atoms, OldRange(last.call.opcodes[k])[1],
                                   context_run_for_pos(last.call.atoms,
                                                       OldRange(last.call.opcodes[k])[1]))
                /\ TextualRunPreferred(last.call.atoms,
                                       context_run_for_pos(last.call.atoms,
                                                           OldRange(last.call.opcodes[k])[1]))

\* None is the context run only in a paragraph without a run.
NoneOnlyWithoutRun ==
    (Differed /\ last.simple) =>
        \A k \in 1..Len(last.call.opcodes) :
            (/\ last.call.opcodes[k][1] # "equal"
             /\ context_run_for_pos(last.call.atoms, OldRange(last.call.opcodes[k])[1]) = None)
                => RunsOf(last.before) = {}

\* C13 (context run selection): for every insert, replace or delete opcode
\* of a fine diff the context run is the run of a text/tab/break atom that
\* contains or touches the old start offset if there is one, else of the
\* nearest preceding one, else of the nearest following one, else any run; a
\* run without text/tab/break is chosen only when the paragraph has no such
\* atom, and None only when the paragraph has no run.
C13_ContextRunSelection == ContextRunInOrder /\ NoneOnlyWithoutRun

\* An element as an object (identity included) whatever paragraph object a
\* text box in it holds.
RECURSIVE NoRef(_)
NoRef(n) == [n EXCEPT !.ref = 0, !.kids = [k \in 1..Len(n.kids) |-> NoRef(n.kids[k])]]

\* The children the splice is to leave: the first w:pPr of the paragraph as
\* it was, then the emitted nodes.
ExpectedChildren(before, new_children) ==
    (IF FindIndex(before.kids, "pPr", 1) = 0 THEN <<>>
     ELSE <<before.kids[FindIndex(before.kids, "pPr", 1)]>>) \o new_children

ChildrenSpliced ==
    (Called /\ last.call.changed) =>
        /\ [k \in 1..Len(Rewritten.kids) |-> NoRef(Rewritten.kids[k])]
              = [k \in 1..Len(ExpectedChildren(last.before, last.call.new_children)) |->
                    NoRef(ExpectedChildren(last.before, last.call.new_children)[k])]
        /\ \A k \in 1..Len(Rewritten.kids) :
              Rewritten.kids[k].tag = "pPr" \/ Rewritten.kids[k].gen = 1
        /\ [Rewritten EXCEPT !.kids = <<>>] = [last.before EXCEPT !.kids = <<>>]

\* A step of the loop changes no paragraph object but the one of its pair,
\* and neither the body's list of paragraphs nor the amended tree.
OnlyThePairChanges ==
    (pc = "loop" /\ idx <= PairCount) =>
        /\ orig_root'.body = orig_root.body
        /\ Len(orig_root'.heap) >= Len(orig_root.heap)
        /\ \A h \in 1..Len(orig_root.heap) :
              h # orig_paras[idx] => orig_root'.heap[h] = orig_root.heap[h]
        /\ amend_root' = amend_root

\* C14 (splice frame): after a paragraph is rewritten its children are its
\* first w:pPr, the same node, if it had one, followed by the emitted nodes
\* in emission order; no earlier child that is not the w:pPr remains, the
\* paragraph element itself is as it was, and no other paragraph is changed.
C14_SpliceFrame == [](ChildrenSpliced) /\ [][OnlyThePairChanges]_vars

\* A paragraph with a w:pPr, in a document of several paragraphs, rewritten
\* with two or more emitted nodes.
C14_Witness_SplicedAfterPPr ==
    /\ Called
    /\ last.call.changed
    /\ Len(orig_paras) >= 2
    /\ FindIndex(last.before.kids, "pPr", 1) # 0
    /\ Len(last.before.kids) >= 2
    /\ Len(last.call.new_children) >= 2

====
